---- MODULE Spec2Model ----
(***************************************************************************)
(* ConsentManagerBuilder (src/src/consent-manager-builder/index.tsx):      *)
(* the consent reconciliation engine.  The React component state, its      *)
(* props, the Preference Store and the two asynchronous lookups joined by  *)
(* initialise are the state; componentDidMount, the settling of the two    *)
(* promises, the continuation of initialise, render and the three handlers *)
(* are the actions.                                                        *)
(***************************************************************************)
EXTENDS Integers, Sequences, FiniteSets, TLC

(* ------------------------------------------------------------------ *)
(* Bounds and input sets                                              *)
(* ------------------------------------------------------------------ *)

\* number of handler calls (setPreferences / resetPreferences / saveConsent)
MaxOps == 2

\* a category id used by the custom-preference adapters
CategoryKey == "m"

(* ------------------------------------------------------------------ *)
(* CategoryPreferences and optional values                            *)
(* ------------------------------------------------------------------ *)

\* the object {}
EmptyPrefs == [k \in {} |-> "undefined"]

\* the object {k: v}
One(k, v) == [x \in {k} |-> v]

\* an optional CategoryPreferences: undefined, or an object
Undefined == [def |-> FALSE, val |-> EmptyPrefs]

Some(m) == [def |-> TRUE, val |-> m]

\* obj[k]: a missing property reads as undefined
Lookup(m, k) == IF k \in DOMAIN m THEN m[k] ELSE "undefined"

\* x || y on optional objects: every object, {} included, is truthy
OrElse(x, y) == IF x.def THEN x ELSE y

\* {...m, ...n}: own properties of n override those of m
Spread(m, n) == [k \in (DOMAIN m) \cup (DOMAIN n) |-> IF k \in DOMAIN n THEN n[k] ELSE m[k]]

\* a boolean as a preference value
BoolVal(b) == IF b THEN "true" ELSE "false"

\* a Destination: only its id is interpreted
Dest(i) == [id |-> i]

Ids(destinations) == {destinations[i].id : i \in 1..Len(destinations)}

(* ------------------------------------------------------------------ *)
(* Pure functions of the component                                    *)
(* ------------------------------------------------------------------ *)

\* the filter of line 25 with a test on the presence of the key
destinationsWithoutConsent_byKey(destinations, destinationPreferences) ==
  IF ~destinationPreferences.def
    THEN destinations
    ELSE SelectSeq(destinations, LAMBDA d : d.id \notin DOMAIN destinationPreferences.val)

\* the filter of line 25 with a test on falsiness
destinationsWithoutConsent_falsy(destinations, destinationPreferences) ==
  IF ~destinationPreferences.def
    THEN destinations
    ELSE SelectSeq(destinations, LAMBDA d : Lookup(destinationPreferences.val, d.id) # "true")

destinationsWithoutConsent(destinations, destinationPreferences) ==
  IF ~destinationPreferences.def
    THEN destinations
    ELSE SelectSeq(destinations, LAMBDA d : Lookup(destinationPreferences.val, d.id) = "undefined")

\* the reduce of lines 261-266 keyed by the destination instead of its id
Broadcast_wrongKey(destinations, v) ==
  IF destinations = <<>> THEN EmptyPrefs ELSE One("[object Object]", v)

\* destinations.reduce((prefs, destination) => ({...prefs, [destination.id]: b}), {})
RECURSIVE Broadcast(_, _)
Broadcast(destinations, v) ==
  IF destinations = <<>>
    THEN EmptyPrefs
    ELSE Spread(Broadcast(SubSeq(destinations, 1, Len(destinations) - 1), v),
                One(destinations[Len(destinations)].id, v))

\* the argument of setPreferences / saveConsent: a boolean, an object or undefined
BoolArg(b) == [type |-> "boolean", bool |-> b, val |-> EmptyPrefs]

ObjArg(m) == [type |-> "object", bool |-> FALSE, val |-> m]

NoArg == [type |-> "undefined", bool |-> FALSE, val |-> EmptyPrefs]

\* a merge in which the existing preferences override the new ones
mergePreferences_existingWins(destinations, existingPreferences, newPreferences) ==
  IF newPreferences.type = "boolean"
    THEN Broadcast(destinations, BoolVal(newPreferences.bool))
    ELSE Spread(newPreferences.val, existingPreferences)

\* a merge in which the boolean broadcast keeps the existing keys
mergePreferences_keepExisting(destinations, existingPreferences, newPreferences) ==
  IF newPreferences.type = "boolean"
    THEN Spread(existingPreferences, Broadcast(destinations, BoolVal(newPreferences.bool)))
    ELSE Spread(existingPreferences, newPreferences.val)

mergePreferences(destinations, existingPreferences, newPreferences) ==
  IF newPreferences.type = "boolean"
    THEN Broadcast(destinations, BoolVal(newPreferences.bool))
    ELSE Spread(existingPreferences, newPreferences.val)

(* ------------------------------------------------------------------ *)
(* Caller-supplied configuration (Props) and external collaborators   *)
(* ------------------------------------------------------------------ *)

\* props.mapCustomPreferences: absent, or one of two adapters
AdapterKinds == {"none", "custom", "noCustom"}

\* a caller-supplied adapter: the category CategoryKey decides for every
\* destination; "custom" returns the normalised category mapping as
\* customPreferences, "noCustom" returns no customPreferences
mapCustomPreferences(kind, destinations, preferences) ==
  LET consent == BoolVal(Lookup(preferences, CategoryKey) = "true")
  IN  [destinationPreferences |-> Some(Broadcast(destinations, consent)),
       customPreferences |-> IF kind = "custom" THEN Some(One(CategoryKey, consent)) ELSE Undefined]

\* props.initialPreferences (defaultProps: {})
InitialPreferencesSet == {EmptyPrefs, One("a", "true")}

\* what loadPreferences() returns when no record is persisted
NoRecord == [destinationPreferences |-> Undefined, customPreferences |-> Undefined]

\* contents of the Preference Store at engine start
InitialStores ==
  { NoRecord,
    [destinationPreferences |-> Some(One("a", "true")), customPreferences |-> Undefined],
    [destinationPreferences |-> Some(One("a", "false")), customPreferences |-> Some(One(CategoryKey, "false"))],
    [destinationPreferences |-> Some(EmptyPrefs), customPreferences |-> Some(One(CategoryKey, "null"))] }

\* loadPreferences(): the persisted record
loadPreferences(st) == st

\* savePreferences({destinationPreferences, customPreferences, cookieDomain}):
\* the record replaces the stored one
savePreferences(destinationPreferences, customPreferences) ==
  [destinationPreferences |-> destinationPreferences, customPreferences |-> customPreferences]

\* catalogs fetchDestinations may resolve with
Catalogs == { <<Dest("a")>>, <<Dest("a"), Dest("b")>>, <<Dest("b"), Dest("a")>> }

\* object arguments of setPreferences / saveConsent
PrefObjects ==
  { One("a", "true"), One("a", "undefined"), One("b", "true"), One("b", "false"),
    One(CategoryKey, "true") }

SetArgs == {ObjArg(m) : m \in PrefObjects} \cup {BoolArg(b) : b \in BOOLEAN}

SaveArgs == SetArgs \cup {NoArg}

(* ------------------------------------------------------------------ *)
(* State                                                              *)
(* ------------------------------------------------------------------ *)

VARIABLES
  props,          \* mapCustomPreferences, onError, initialPreferences
  store,          \* the record held by the Preference Store
  state,          \* this.state
  pc,             \* position of componentDidMount / initialise
  loaded,         \* the record loadPreferences() returned at line 143
  predicate,      \* the promise of shouldRequireConsent()
  fetch,          \* the promise of fetchDestinations(...)
  join,           \* the promise of Promise.all([...])
  analytics,      \* calls of conditionallyLoadAnalytics: count and last argument
  storeWrites,    \* number of savePreferences calls
  onErrorCalls,   \* calls of props.onError: count and last argument
  childrenCalled, \* props.children has been invoked
  lastCall,       \* the last completed operation and its argument
  nOps,           \* number of handler calls so far
  mounted,        \* the component has not been unmounted
  effects,        \* the calls the last operation made, in order
  published,      \* the preferences the last saveConsent published, if any
  diffIn,         \* arguments handed to destinationsWithoutConsent on its own
  diffOut         \* what it returned for them

vars == <<props, store, state, pc, loaded, predicate, fetch, join, analytics,
          storeWrites, onErrorCalls, childrenCalled, lastCall, nOps,
          mounted, effects, published, diffIn, diffOut>>

\* the variables of the stand-alone application of destinationsWithoutConsent
diffVars == <<diffIn, diffOut>>

NoDiffIn == [destinations |-> <<>>, destinationPreferences |-> Undefined]

NoDiffOut == [done |-> FALSE, result |-> <<>>]

NoActivation ==
  [destinations |-> <<>>, destinationPreferences |-> Undefined,
   isConsentRequired |-> FALSE, shouldReload |-> "undefined"]

Init ==
  /\ props \in [mapCustomPreferences : AdapterKinds, onError : BOOLEAN,
                initialPreferences : InitialPreferencesSet]
  /\ store \in InitialStores
  /\ state = [isLoading |-> TRUE, destinations |-> <<>>, newDestinations |-> <<>>,
              preferences |-> EmptyPrefs, isConsentRequired |-> TRUE,
              destinationPreferences |-> Undefined]
  /\ pc = "constructed"
  /\ loaded = NoRecord
  /\ predicate = [status |-> "idle", value |-> FALSE]
  /\ fetch = [status |-> "idle", value |-> <<>>]
  /\ join = [status |-> "idle", reason |-> "none"]
  /\ analytics = [calls |-> 0, last |-> NoActivation]
  /\ storeWrites = 0
  /\ onErrorCalls = [calls |-> 0, reason |-> "none"]
  /\ childrenCalled = FALSE
  /\ lastCall = [op |-> "none", arg |-> NoArg]
  /\ nOps = 0
  /\ mounted = TRUE
  /\ effects = <<>>
  /\ published = Undefined
  /\ diffIn = NoDiffIn
  /\ diffOut = NoDiffOut

(* ------------------------------------------------------------------ *)
(* Initialisation                                                     *)
(* ------------------------------------------------------------------ *)

\* componentDidMount calls initialise, which runs up to its await:
\* line 143 loads the persisted record, lines 145-148 issue the two lookups
componentDidMount ==
  /\ pc = "constructed"
  /\ loaded' = loadPreferences(store)
  /\ predicate' = [status |-> "pending", value |-> FALSE]
  /\ fetch' = [status |-> "pending", value |-> <<>>]
  /\ join' = [status |-> "pending", reason |-> "none"]
  /\ pc' = "awaiting"
  /\ effects' = <<"loadPreferences", "shouldRequireConsent", "fetchDestinations">>
  /\ UNCHANGED <<props, store, state, analytics, storeWrites, onErrorCalls,
                 childrenCalled, lastCall, nOps, mounted, published, diffVars>>

\* a join that is fulfilled by the first promise that resolves
PromiseAll_race(j, p, f, who) ==
  IF j.status # "pending" THEN j
  ELSE IF p.status = "rejected" \/ f.status = "rejected"
    THEN [status |-> "rejected", reason |-> who]
  ELSE IF p.status = "resolved" \/ f.status = "resolved"
    THEN [status |-> "fulfilled", reason |-> "none"]
  ELSE j

\* a join that waits for both promises to settle and ignores rejections
PromiseAll_settled(j, p, f, who) ==
  IF j.status # "pending" THEN j
  ELSE IF p.status \in {"resolved", "rejected"} /\ f.status \in {"resolved", "rejected"}
    THEN [status |-> "fulfilled", reason |-> "none"]
  ELSE j

\* Promise.all over the two promises, after promise `who` has settled:
\* rejected by the first rejection, fulfilled once both are resolved
PromiseAll(j, p, f, who) ==
  IF j.status # "pending" THEN j
  ELSE IF p.status = "rejected" \/ f.status = "rejected"
    THEN [status |-> "rejected", reason |-> who]
  ELSE IF p.status = "resolved" /\ f.status = "resolved"
    THEN [status |-> "fulfilled", reason |-> "none"]
  ELSE j

\* shouldRequireConsent() resolves with b
predicateResolve(b) ==
  /\ predicate.status = "pending"
  /\ predicate' = [status |-> "resolved", value |-> b]
  /\ join' = PromiseAll(join, predicate', fetch, "shouldRequireConsent")
  /\ UNCHANGED <<props, store, state, pc, loaded, fetch, analytics, storeWrites,
                 onErrorCalls, childrenCalled, lastCall, nOps,
                 mounted, effects, published, diffVars>>

\* shouldRequireConsent() rejects (or throws)
predicateReject ==
  /\ predicate.status = "pending"
  /\ predicate' = [status |-> "rejected", value |-> FALSE]
  /\ join' = PromiseAll(join, predicate', fetch, "shouldRequireConsent")
  /\ UNCHANGED <<props, store, state, pc, loaded, fetch, analytics, storeWrites,
                 onErrorCalls, childrenCalled, lastCall, nOps,
                 mounted, effects, published, diffVars>>

\* fetchDestinations(...) resolves with the catalog c
fetchResolve(c) ==
  /\ fetch.status = "pending"
  /\ fetch' = [status |-> "resolved", value |-> c]
  /\ join' = PromiseAll(join, predicate, fetch', "fetchDestinations")
  /\ UNCHANGED <<props, store, state, pc, loaded, predicate, analytics, storeWrites,
                 onErrorCalls, childrenCalled, lastCall, nOps,
                 mounted, effects, published, diffVars>>

\* fetchDestinations(...) rejects
fetchReject ==
  /\ fetch.status = "pending"
  /\ fetch' = [status |-> "rejected", value |-> <<>>]
  /\ join' = PromiseAll(join, predicate, fetch', "fetchDestinations")
  /\ UNCHANGED <<props, store, state, pc, loaded, predicate, analytics, storeWrites,
                 onErrorCalls, childrenCalled, lastCall, nOps,
                 mounted, effects, published, diffVars>>

\* Object.values(initialPreferences || {}).some(Boolean)
hasInitialPreferenceToTrue(initialPreferences) ==
  \E k \in DOMAIN initialPreferences : initialPreferences[k] = "true"

\* Object.values(customPreferences || {}).every(v => v === null || v === undefined)
emptyCustomPreferecences(customPreferences) ==
  \A k \in DOMAIN OrElse(customPreferences, Some(EmptyPrefs)).val :
     customPreferences.val[k] \in {"null", "undefined"}

\* lines 143 and 150-168 without the assignments of lines 163-164
initialiseResolve_noAdopt(p, ld, destinations) ==
  LET loadedDestinationPreferences == OrElse(ld.destinationPreferences, Some(EmptyPrefs))
      withAdapter == p.mapCustomPreferences # "none"
  IN  [newDestinations |-> destinationsWithoutConsent(destinations, loadedDestinationPreferences),
       preferences |->
         IF withAdapter
           THEN OrElse(ld.customPreferences, Some(p.initialPreferences)).val
           ELSE loadedDestinationPreferences.val,
       adapterCalled |-> /\ withAdapter
                         /\ hasInitialPreferenceToTrue(p.initialPreferences)
                         /\ emptyCustomPreferecences(ld.customPreferences),
       destinationPreferences |-> loadedDestinationPreferences,
       customPreferences |-> ld.customPreferences]

\* lines 143 and 150-168: p the props, ld the record loadPreferences returned
initialiseResolve(p, ld, destinations) ==
  LET loadedDestinationPreferences == OrElse(ld.destinationPreferences, Some(EmptyPrefs))
      newDestinations == destinationsWithoutConsent(destinations, loadedDestinationPreferences)
      withAdapter == p.mapCustomPreferences # "none"
      preferences ==
        IF withAdapter
          THEN OrElse(ld.customPreferences,
                      OrElse(Some(p.initialPreferences), Some(EmptyPrefs))).val
          ELSE OrElse(loadedDestinationPreferences, Some(p.initialPreferences)).val
      fresh == /\ withAdapter
               /\ hasInitialPreferenceToTrue(p.initialPreferences)
               /\ emptyCustomPreferecences(ld.customPreferences)
      mapped == mapCustomPreferences(p.mapCustomPreferences, destinations, preferences)
  IN  [newDestinations |-> newDestinations,
       preferences |-> preferences,
       adapterCalled |-> fresh,
       destinationPreferences |->
         IF fresh THEN mapped.destinationPreferences ELSE loadedDestinationPreferences,
       customPreferences |->
         IF fresh THEN mapped.customPreferences ELSE ld.customPreferences]

\* this.setState(next): React applies the update to a mounted component and
\* drops it, leaving this.state as it is, once the component is unmounted
setState(isMounted, current, next) == IF isMounted THEN next ELSE current

\* an initialise that persists what the adapter returned in the fresh-user branch
initialiseContinue_persist ==
  /\ pc = "awaiting"
  /\ join.status = "fulfilled"
  /\ LET isConsentRequired == predicate.value
         destinations == fetch.value
         r == initialiseResolve(props, loaded, destinations)
     IN  /\ analytics' = [calls |-> analytics.calls + 1,
                          last |-> [destinations |-> destinations,
                                    destinationPreferences |-> r.destinationPreferences,
                                    isConsentRequired |-> isConsentRequired,
                                    shouldReload |-> "undefined"]]
         /\ state' = setState(mounted, state,
                              [state EXCEPT !.isLoading = FALSE,
                                            !.destinations = destinations,
                                            !.newDestinations = r.newDestinations,
                                            !.preferences = r.preferences,
                                            !.isConsentRequired = isConsentRequired])
         /\ effects' = (IF r.adapterCalled THEN <<"mapCustomPreferences">> ELSE <<>>)
                          \o <<"conditionallyLoadAnalytics", "setState">>
         /\ store' = IF r.adapterCalled
                       THEN savePreferences(r.destinationPreferences, r.customPreferences)
                       ELSE store
  /\ pc' = "ready"
  /\ lastCall' = [op |-> "initialise", arg |-> NoArg]
  /\ UNCHANGED <<props, loaded, predicate, fetch, join, storeWrites,
                 onErrorCalls, childrenCalled, nOps, mounted, published, diffVars>>

\* an initialise that assigns this.state instead of calling setState
initialiseContinue_assign ==
  /\ pc = "awaiting"
  /\ join.status = "fulfilled"
  /\ LET isConsentRequired == predicate.value
         destinations == fetch.value
         r == initialiseResolve(props, loaded, destinations)
     IN  /\ analytics' = [calls |-> analytics.calls + 1,
                          last |-> [destinations |-> destinations,
                                    destinationPreferences |-> r.destinationPreferences,
                                    isConsentRequired |-> isConsentRequired,
                                    shouldReload |-> "undefined"]]
         /\ state' = [state EXCEPT !.isLoading = FALSE,
                                   !.destinations = destinations,
                                   !.newDestinations = r.newDestinations,
                                   !.preferences = r.preferences,
                                   !.isConsentRequired = isConsentRequired]
         /\ effects' = (IF r.adapterCalled THEN <<"mapCustomPreferences">> ELSE <<>>)
                          \o <<"conditionallyLoadAnalytics", "setState">>
  /\ pc' = "ready"
  /\ lastCall' = [op |-> "initialise", arg |-> NoArg]
  /\ UNCHANGED <<props, store, loaded, predicate, fetch, join, storeWrites,
                 onErrorCalls, childrenCalled, nOps, mounted, published, diffVars>>

\* an initialise whose setState leaves isLoading as it is
initialiseContinue_keepLoading ==
  /\ pc = "awaiting"
  /\ join.status = "fulfilled"
  /\ LET isConsentRequired == predicate.value
         destinations == fetch.value
         r == initialiseResolve(props, loaded, destinations)
     IN  /\ analytics' = [calls |-> analytics.calls + 1,
                          last |-> [destinations |-> destinations,
                                    destinationPreferences |-> r.destinationPreferences,
                                    isConsentRequired |-> isConsentRequired,
                                    shouldReload |-> "undefined"]]
         /\ state' = setState(mounted, state,
                              [state EXCEPT !.destinations = destinations,
                                            !.newDestinations = r.newDestinations,
                                            !.preferences = r.preferences,
                                            !.isConsentRequired = isConsentRequired])
         /\ effects' = (IF r.adapterCalled THEN <<"mapCustomPreferences">> ELSE <<>>)
                          \o <<"conditionallyLoadAnalytics", "setState">>
  /\ pc' = "ready"
  /\ lastCall' = [op |-> "initialise", arg |-> NoArg]
  /\ UNCHANGED <<props, store, loaded, predicate, fetch, join, storeWrites,
                 onErrorCalls, childrenCalled, nOps, mounted, published, diffVars>>

\* initialise resumes after the await (lines 150-183)
initialiseContinue ==
  /\ pc = "awaiting"
  /\ join.status = "fulfilled"
  /\ LET isConsentRequired == predicate.value
         destinations == fetch.value
         r == initialiseResolve(props, loaded, destinations)
     IN  /\ analytics' = [calls |-> analytics.calls + 1,
                          last |-> [destinations |-> destinations,
                                    destinationPreferences |-> r.destinationPreferences,
                                    isConsentRequired |-> isConsentRequired,
                                    shouldReload |-> "undefined"]]
         /\ state' = setState(mounted, state,
                              [state EXCEPT !.isLoading = FALSE,
                                            !.destinations = destinations,
                                            !.newDestinations = r.newDestinations,
                                            !.preferences = r.preferences,
                                            !.isConsentRequired = isConsentRequired])
         /\ effects' = (IF r.adapterCalled THEN <<"mapCustomPreferences">> ELSE <<>>)
                          \o <<"conditionallyLoadAnalytics", "setState">>
  /\ pc' = "ready"
  /\ lastCall' = [op |-> "initialise", arg |-> NoArg]
  /\ UNCHANGED <<props, store, loaded, predicate, fetch, join, storeWrites,
                 onErrorCalls, childrenCalled, nOps, mounted, published, diffVars>>

\* the await of initialise throws (lines 123-131): the catch of line 126 when
\* onError is configured, an uncaught rejection otherwise
componentDidMountCatch ==
  /\ pc = "awaiting"
  /\ join.status = "rejected"
  /\ pc' = "failed"
  /\ onErrorCalls' = IF props.onError
                       THEN [calls |-> onErrorCalls.calls + 1, reason |-> join.reason]
                       ELSE onErrorCalls
  /\ UNCHANGED <<props, store, state, loaded, predicate, fetch, join, analytics,
                 storeWrites, childrenCalled, lastCall, nOps,
                 mounted, effects, published, diffVars>>

\* render (lines 102-119): nothing while loading, else props.children
render ==
  /\ mounted
  /\ childrenCalled' = (childrenCalled \/ ~state.isLoading)
  /\ UNCHANGED <<props, store, state, pc, loaded, predicate, fetch, join, analytics,
                 storeWrites, onErrorCalls, lastCall, nOps,
                 mounted, effects, published, diffVars>>

(* ------------------------------------------------------------------ *)
(* The three handlers handed to props.children                        *)
(* ------------------------------------------------------------------ *)

\* a handleSetPreferences that also recomputes newDestinations
handleSetPreferences_recompute(newPreferences) ==
  /\ mounted
  /\ childrenCalled
  /\ nOps < MaxOps
  /\ LET preferences == mergePreferences(state.destinations, state.preferences, newPreferences)
     IN  state' = [state EXCEPT !.preferences = preferences,
                                !.newDestinations =
                                  destinationsWithoutConsent(state.destinations, Some(preferences))]
  /\ lastCall' = [op |-> "setPreferences", arg |-> newPreferences]
  /\ nOps' = nOps + 1
  /\ effects' = <<"setState">>
  /\ UNCHANGED <<props, store, pc, loaded, predicate, fetch, join, analytics,
                 storeWrites, onErrorCalls, childrenCalled, mounted, published, diffVars>>

\* handleSetPreferences (lines 186-192)
handleSetPreferences(newPreferences) ==
  /\ mounted
  /\ childrenCalled
  /\ nOps < MaxOps
  /\ LET destinations == state.destinations
         existingPreferences == state.preferences
         preferences == mergePreferences(destinations, existingPreferences, newPreferences)
     IN  state' = [state EXCEPT !.preferences = preferences]
  /\ lastCall' = [op |-> "setPreferences", arg |-> newPreferences]
  /\ nOps' = nOps + 1
  /\ effects' = <<"setState">>
  /\ UNCHANGED <<props, store, pc, loaded, predicate, fetch, join, analytics,
                 storeWrites, onErrorCalls, childrenCalled, mounted, published, diffVars>>

\* lines 198-203: the preferences resolved from a freshly loaded record
resetResolve(p, rec) ==
  IF p.mapCustomPreferences # "none"
    THEN OrElse(rec.customPreferences, Some(p.initialPreferences)).val
    ELSE OrElse(rec.destinationPreferences, Some(p.initialPreferences)).val

\* a handleResetPreferences whose setState replaces the state instead of
\* merging {preferences} into it
handleResetPreferences_replace ==
  /\ mounted
  /\ childrenCalled
  /\ nOps < MaxOps
  /\ state' = [isLoading |-> TRUE, destinations |-> <<>>, newDestinations |-> <<>>,
               preferences |-> resetResolve(props, loadPreferences(store)),
               isConsentRequired |-> TRUE, destinationPreferences |-> Undefined]
  /\ lastCall' = [op |-> "resetPreferences", arg |-> NoArg]
  /\ nOps' = nOps + 1
  /\ effects' = <<"loadPreferences", "setState">>
  /\ UNCHANGED <<props, store, pc, loaded, predicate, fetch, join, analytics,
                 storeWrites, onErrorCalls, childrenCalled, mounted, published, diffVars>>

\* a handleResetPreferences that merges the reloaded preferences into the ones
\* in memory
handleResetPreferences_merge ==
  /\ mounted
  /\ childrenCalled
  /\ nOps < MaxOps
  /\ state' = [state EXCEPT !.preferences =
                 Spread(resetResolve(props, loadPreferences(store)), state.preferences)]
  /\ lastCall' = [op |-> "resetPreferences", arg |-> NoArg]
  /\ nOps' = nOps + 1
  /\ effects' = <<"loadPreferences", "setState">>
  /\ UNCHANGED <<props, store, pc, loaded, predicate, fetch, join, analytics,
                 storeWrites, onErrorCalls, childrenCalled, mounted, published, diffVars>>

\* handleResetPreferences (lines 194-206)
handleResetPreferences ==
  /\ mounted
  /\ childrenCalled
  /\ nOps < MaxOps
  /\ state' = [state EXCEPT !.preferences = resetResolve(props, loadPreferences(store))]
  /\ lastCall' = [op |-> "resetPreferences", arg |-> NoArg]
  /\ nOps' = nOps + 1
  /\ effects' = <<"loadPreferences", "setState">>
  /\ UNCHANGED <<props, store, pc, loaded, predicate, fetch, join, analytics,
                 storeWrites, onErrorCalls, childrenCalled, mounted, published, diffVars>>

\* lines 215-238 without the recomputation of line 238
saveResolve_staleDiff(p, prevState, newPreferences) ==
  LET merged == mergePreferences(prevState.destinations, prevState.preferences, newPreferences)
  IN  [destinationPreferences |-> Some(merged),
       customPreferences |-> Undefined,
       preferences |-> merged,
       newDestinations |-> prevState.newDestinations]

\* lines 215-238 without the fallback of line 235: the custom preferences
\* stay undefined when the adapter returns none
saveResolve_noCustomFallback(p, prevState, newPreferences) ==
  LET destinations == prevState.destinations
      merged == mergePreferences(destinations, prevState.preferences, newPreferences)
      withAdapter == p.mapCustomPreferences # "none"
      custom == mapCustomPreferences(p.mapCustomPreferences, destinations, merged)
      destinationPreferences ==
        IF withAdapter THEN custom.destinationPreferences ELSE Some(merged)
  IN  [destinationPreferences |-> destinationPreferences,
       customPreferences |-> IF withAdapter THEN custom.customPreferences ELSE Undefined,
       preferences |->
         IF withAdapter /\ custom.customPreferences.def
           THEN custom.customPreferences.val
           ELSE merged,
       newDestinations |-> destinationsWithoutConsent(destinations, destinationPreferences)]

\* lines 215-238: the values handleSaveConsent computes from prevState
saveResolve(p, prevState, newPreferences) ==
  LET destinations == prevState.destinations
      existingPreferences == prevState.preferences
      merged == mergePreferences(destinations, existingPreferences, newPreferences)
      withAdapter == p.mapCustomPreferences # "none"
      custom == mapCustomPreferences(p.mapCustomPreferences, destinations, merged)
      destinationPreferences ==
        IF withAdapter THEN custom.destinationPreferences ELSE Some(merged)
      customPreferences ==
        IF withAdapter THEN OrElse(custom.customPreferences, Some(merged)) ELSE Undefined
      preferences ==
        IF withAdapter /\ custom.customPreferences.def
          THEN custom.customPreferences.val
          ELSE merged
  IN  [destinationPreferences |-> destinationPreferences,
       customPreferences |-> customPreferences,
       preferences |-> preferences,
       newDestinations |-> destinationsWithoutConsent(destinations, destinationPreferences)]

\* a handleSaveConsent that activates analytics with the exposed preferences
handleSaveConsent_activatePreferences(newPreferences, shouldReload) ==
  /\ mounted
  /\ childrenCalled
  /\ nOps < MaxOps
  /\ LET r == saveResolve(props, state, newPreferences)
     IN  /\ store' = savePreferences(r.destinationPreferences, r.customPreferences)
         /\ storeWrites' = storeWrites + 1
         /\ analytics' = [calls |-> analytics.calls + 1,
                          last |-> [destinations |-> state.destinations,
                                    destinationPreferences |-> Some(r.preferences),
                                    isConsentRequired |-> state.isConsentRequired,
                                    shouldReload |-> shouldReload]]
         /\ state' = [state EXCEPT !.destinationPreferences = r.destinationPreferences,
                                   !.preferences = r.preferences,
                                   !.newDestinations = r.newDestinations]
         /\ published' = Some(r.preferences)
  /\ effects' = (IF props.mapCustomPreferences # "none"
                   THEN <<"mapCustomPreferences">> ELSE <<>>)
                  \o <<"savePreferences", "conditionallyLoadAnalytics", "setState">>
  /\ lastCall' = [op |-> "saveConsent", arg |-> newPreferences]
  /\ nOps' = nOps + 1
  /\ UNCHANGED <<props, pc, loaded, predicate, fetch, join, onErrorCalls, childrenCalled,
                 mounted, diffVars>>

\* handleSaveConsent (lines 208-251)
handleSaveConsent(newPreferences, shouldReload) ==
  /\ mounted
  /\ childrenCalled
  /\ nOps < MaxOps
  /\ LET r == saveResolve(props, state, newPreferences)
     IN  /\ store' = savePreferences(r.destinationPreferences, r.customPreferences)
         /\ storeWrites' = storeWrites + 1
         /\ analytics' = [calls |-> analytics.calls + 1,
                          last |-> [destinations |-> state.destinations,
                                    destinationPreferences |-> r.destinationPreferences,
                                    isConsentRequired |-> state.isConsentRequired,
                                    shouldReload |-> shouldReload]]
         /\ state' = [state EXCEPT !.destinationPreferences = r.destinationPreferences,
                                   !.preferences = r.preferences,
                                   !.newDestinations = r.newDestinations]
         /\ published' = Some(r.preferences)
  /\ effects' = (IF props.mapCustomPreferences # "none"
                   THEN <<"mapCustomPreferences">> ELSE <<>>)
                  \o <<"savePreferences", "conditionallyLoadAnalytics", "setState">>
  /\ lastCall' = [op |-> "saveConsent", arg |-> newPreferences]
  /\ nOps' = nOps + 1
  /\ UNCHANGED <<props, pc, loaded, predicate, fetch, join, onErrorCalls, childrenCalled,
                 mounted, diffVars>>

\* the calls of handleSaveConsent that may throw
FailurePoints == {"mapCustomPreferences", "savePreferences", "conditionallyLoadAnalytics"}

\* handleSaveConsent (lines 208-251) when the call `failing` throws inside the
\* updater: the updater returns nothing, so the state is not replaced; what
\* ran before the throw has happened (a throwing savePreferences writes
\* nothing); React unmounts the component on the uncaught error
handleSaveConsentThrows(newPreferences, shouldReload, failing) ==
  /\ mounted
  /\ childrenCalled
  /\ nOps < MaxOps
  /\ failing = "mapCustomPreferences" => props.mapCustomPreferences # "none"
  /\ LET r == saveResolve(props, state, newPreferences)
         written == failing = "conditionallyLoadAnalytics"
         adapter == IF props.mapCustomPreferences # "none"
                      THEN <<"mapCustomPreferences">> ELSE <<>>
     IN  /\ store' = IF written
                       THEN savePreferences(r.destinationPreferences, r.customPreferences)
                       ELSE store
         /\ storeWrites' = IF written THEN storeWrites + 1 ELSE storeWrites
         /\ effects' = CASE failing = "mapCustomPreferences" -> adapter
                         [] failing = "savePreferences" -> adapter \o <<"savePreferences">>
                         [] OTHER -> adapter \o <<"savePreferences", "conditionallyLoadAnalytics">>
  /\ lastCall' = [op |-> "saveConsentThrew", arg |-> newPreferences]
  /\ nOps' = nOps + 1
  /\ mounted' = FALSE
  /\ UNCHANGED <<props, state, pc, loaded, predicate, fetch, join, analytics,
                 onErrorCalls, childrenCalled, published, diffVars>>

\* React unmounts the component (the class defines no componentWillUnmount):
\* the pending lookups and the continuation of initialise are not cancelled
unmount ==
  /\ mounted
  /\ pc # "constructed"
  /\ mounted' = FALSE
  /\ UNCHANGED <<props, store, state, pc, loaded, predicate, fetch, join, analytics,
                 storeWrites, onErrorCalls, childrenCalled, lastCall, nOps,
                 effects, published, diffVars>>

\* values of the shouldReload argument
ReloadArgs == {"undefined", "true"}

Next ==
  \/ componentDidMount
  \/ \E b \in BOOLEAN : predicateResolve(b)
  \/ predicateReject
  \/ \E c \in Catalogs : fetchResolve(c)
  \/ fetchReject
  \/ initialiseContinue
  \/ componentDidMountCatch
  \/ render
  \/ \E a \in SetArgs : handleSetPreferences(a)
  \/ handleResetPreferences
  \/ \E a \in SaveArgs, r \in ReloadArgs : handleSaveConsent(a, r)

Spec == Init /\ [][Next]_vars

(* ------------------------------------------------------------------ *)
(* Properties                                                         *)
(* ------------------------------------------------------------------ *)

\* the destination-level preferences last loaded from, or last written to,
\* the Preference Store (no record: no keys)
PersistedDestinationPreferences == store.destinationPreferences.val

\* a step that is a call of handler op
HandlerStep(op) == nOps' = nOps + 1 /\ lastCall'.op = op

WithoutAdapter == props.mapCustomPreferences = "none"

\* C1 (as stated): whenever isLoading is false, newDestinations is exactly
\* the subsequence of destinations whose id is not a key of the persisted
\* destination-level preferences.
C1_NewDestinationsByKey ==
  ~state.isLoading =>
    state.newDestinations =
      SelectSeq(state.destinations,
                LAMBDA d : d.id \notin DOMAIN PersistedDestinationPreferences)

\* C1 (amended): whenever isLoading is false, newDestinations is exactly the
\* subsequence of destinations whose id has no defined value in the persisted
\* destination-level preferences: the key is absent or maps to undefined.
C1_NewDestinationsByValue ==
  ~state.isLoading =>
    state.newDestinations =
      SelectSeq(state.destinations,
                LAMBDA d : \/ d.id \notin DOMAIN PersistedDestinationPreferences
                           \/ PersistedDestinationPreferences[d.id] = "undefined")

\* C1 witness: a save has written a key that maps to undefined, and its
\* destination is reported as new
C1_Witness ==
  /\ ~state.isLoading
  /\ lastCall.op = "saveConsent"
  /\ \E i \in 1..Len(state.newDestinations) :
       /\ state.newDestinations[i].id \in DOMAIN PersistedDestinationPreferences
       /\ PersistedDestinationPreferences[state.newDestinations[i].id] = "undefined"

InitialState ==
  [isLoading |-> TRUE, destinations |-> <<>>, newDestinations |-> <<>>,
   preferences |-> EmptyPrefs, isConsentRequired |-> TRUE,
   destinationPreferences |-> Undefined]

\* C2: once the predicate or the fetch has rejected, the engine stays not
\* ready: isLoading is true, the state is the one of construction, analytics
\* has not been activated and props.children has not been called; and once
\* componentDidMount has settled, onError was called exactly once with the
\* rejection when it is configured, and not at all otherwise.
C2_InitFailureNeverReady ==
  (predicate.status = "rejected" \/ fetch.status = "rejected") =>
    /\ state.isLoading
    /\ state = InitialState
    /\ analytics.calls = 0
    /\ ~childrenCalled
    /\ pc # "ready"
    /\ (pc = "failed" /\ props.onError) =>
         /\ onErrorCalls.calls = 1
         /\ onErrorCalls.reason \in {"shouldRequireConsent", "fetchDestinations"}
         /\ (onErrorCalls.reason = "shouldRequireConsent" => predicate.status = "rejected")
         /\ (onErrorCalls.reason = "fetchDestinations" => fetch.status = "rejected")
    /\ ~props.onError => onErrorCalls.calls = 0

\* C2 witness: the predicate rejected first, the fetch resolved afterwards,
\* and the error handler has been called
C2_Witness ==
  /\ predicate.status = "rejected"
  /\ fetch.status = "resolved"
  /\ pc = "failed"
  /\ props.onError
  /\ onErrorCalls.reason = "shouldRequireConsent"

\* C3: isLoading is true and props.children is not called until both the
\* predicate and the fetch have resolved, and the state initialise publishes
\* is determined by the two results, the loaded record and the props alone.
C3_InitialisationIsJoin ==
  /\ (~state.isLoading \/ childrenCalled) =>
       predicate.status = "resolved" /\ fetch.status = "resolved"
  /\ lastCall.op = "initialise" =>
       /\ ~state.isLoading
       /\ state.isConsentRequired = predicate.value
       /\ state.destinations = fetch.value
       /\ state.newDestinations =
            SelectSeq(fetch.value,
                      LAMBDA d : \/ d.id \notin DOMAIN loaded.destinationPreferences.val
                                 \/ loaded.destinationPreferences.val[d.id] = "undefined")
       /\ state.preferences =
            IF WithoutAdapter
              THEN loaded.destinationPreferences.val
              ELSE IF loaded.customPreferences.def
                     THEN loaded.customPreferences.val
                     ELSE props.initialPreferences

\* C3 witness: the fetch resolved with two destinations while the predicate
\* was still pending, and the engine is still loading
C3_Witness ==
  /\ fetch.status = "resolved"
  /\ Len(fetch.value) = 2
  /\ predicate.status = "pending"
  /\ join.status = "pending"
  /\ state.isLoading

\* C4: a resetPreferences called directly after initialisation (no
\* setPreferences or saveConsent in between) leaves preferences equal to the
\* value initialisation published.
C4_ResetAfterInitKeepsPreferences ==
  [][(lastCall.op = "initialise" /\ HandlerStep("resetPreferences"))
       => state'.preferences = state.preferences]_vars

\* C5: without an adapter, initialise publishes isLoading = false, the
\* predicate's result, the fetched catalog, the fetched destinations whose id
\* is not in the persisted destination-level preferences, and as preferences
\* the persisted destination-level preferences when a record exists, the
\* initial preferences otherwise.
C5_InitPublishesWithoutAdapter ==
  (lastCall.op = "initialise" /\ WithoutAdapter) =>
    /\ ~state.isLoading
    /\ state.isConsentRequired = predicate.value
    /\ state.destinations = fetch.value
    /\ state.newDestinations =
         SelectSeq(fetch.value,
                   LAMBDA d : d.id \notin DOMAIN loaded.destinationPreferences.val)
    /\ state.preferences =
         IF loaded.destinationPreferences.def
           THEN loaded.destinationPreferences.val
           ELSE props.initialPreferences

\* C6 (as stated): without an adapter, a saveConsent({x: true}) or
\* saveConsent({x: false}) with x in newDestinations removes x from
\* newDestinations, and every destination absent from newDestinations before
\* the call is absent after it.
C6_SaveRecomputesDiff ==
  [][(HandlerStep("saveConsent") /\ WithoutAdapter /\ lastCall'.arg.type = "object")
       => \A x \in Ids(state.newDestinations) :
            lastCall'.arg.val \in {One(x, "true"), One(x, "false")} =>
              /\ x \notin Ids(state'.newDestinations)
              /\ \A y \in Ids(state.destinations) \ Ids(state.newDestinations) :
                   y \notin Ids(state'.newDestinations)]_vars

\* C6 (amended): without an adapter, a saveConsent({x: true}) or
\* saveConsent({x: false}) with x in newDestinations removes x from
\* newDestinations, and every destination absent from newDestinations before
\* the call whose in-memory preference is not undefined is absent after it.
C6_SaveRecomputesDiffDefined ==
  [][(HandlerStep("saveConsent") /\ WithoutAdapter /\ lastCall'.arg.type = "object")
       => \A x \in Ids(state.newDestinations) :
            lastCall'.arg.val \in {One(x, "true"), One(x, "false")} =>
              /\ x \notin Ids(state'.newDestinations)
              /\ \A y \in Ids(state.destinations) \ Ids(state.newDestinations) :
                   (y \in DOMAIN state.preferences /\ state.preferences[y] # "undefined")
                     => y \notin Ids(state'.newDestinations)]_vars

\* C6 witness: a save of {b: ...} after which b is not new, in a catalog
\* whose other destination a was decided before and is still not new
C6_Witness ==
  /\ WithoutAdapter
  /\ lastCall.op = "saveConsent"
  /\ lastCall.arg \in {ObjArg(One("b", "true")), ObjArg(One("b", "false"))}
  /\ Len(state.destinations) = 2
  /\ loaded.destinationPreferences = Some(One("a", "true"))
  /\ state.newDestinations = <<>>
  /\ nOps = 1

\* C7: without an adapter, saveConsent(b) with a boolean b publishes
\* preferences whose keys are exactly the ids of destinations, each mapped to
\* b, publishes an empty newDestinations, and leaves in the Preference Store a
\* record whose destinationPreferences is that mapping.
C7_BulkSave ==
  (lastCall.op = "saveConsent" /\ lastCall.arg.type = "boolean" /\ WithoutAdapter) =>
    /\ DOMAIN state.preferences = Ids(state.destinations)
    /\ \A k \in DOMAIN state.preferences :
         state.preferences[k] = (IF lastCall.arg.bool THEN "true" ELSE "false")
    /\ state.newDestinations = <<>>
    /\ store.destinationPreferences.def
    /\ store.destinationPreferences.val = state.preferences
    /\ storeWrites >= 1

\* C7 witness: saveConsent(false) after a setPreferences, on a catalog of one
\* destination that the loaded record had accepted
C7_Witness ==
  /\ WithoutAdapter
  /\ lastCall = [op |-> "saveConsent", arg |-> BoolArg(FALSE)]
  /\ nOps = 2
  /\ loaded.destinationPreferences = Some(One("a", "true"))
  /\ state.destinations = <<Dest("a")>>
  /\ state.preferences = One("a", "false")

\* C8: without an adapter, saveConsent(P) with a mapping P writes as
\* destinationPreferences the in-memory preferences overridden by P (the keys
\* of P take P's values, every other key keeps its value), and saveConsent()
\* writes exactly the in-memory preferences and leaves preferences unchanged.
C8_SaveCommitsMemory ==
  [][(HandlerStep("saveConsent") /\ WithoutAdapter /\ lastCall'.arg.type # "boolean")
       => LET P == lastCall'.arg.val
              written == store'.destinationPreferences
          IN  /\ storeWrites' = storeWrites + 1
              /\ written.def
              /\ DOMAIN written.val = (DOMAIN state.preferences) \cup (DOMAIN P)
              /\ \A k \in DOMAIN P : written.val[k] = P[k]
              /\ \A k \in (DOMAIN state.preferences) \ (DOMAIN P) :
                   written.val[k] = state.preferences[k]
              /\ lastCall'.arg.type = "undefined" =>
                   /\ written.val = state.preferences
                   /\ state'.preferences = state.preferences]_vars

\* C8 witness: after a setPreferences({b: true}), a saveConsent({a: true}) has
\* overridden the loaded a: false and kept the b set in memory
C8_Witness ==
  /\ WithoutAdapter
  /\ lastCall = [op |-> "saveConsent", arg |-> ObjArg(One("a", "true"))]
  /\ nOps = 2
  /\ loaded.destinationPreferences = Some(One("a", "false"))
  /\ store.destinationPreferences.val = [k \in {"a", "b"} |-> "true"]

\* C9: setPreferences changes only the preferences field: the other fields of
\* the state, the Preference Store and the analytics activations are
\* unchanged.
C9_SetPreferencesInMemoryOnly ==
  [][HandlerStep("setPreferences")
       => /\ state' = [state EXCEPT !.preferences = state'.preferences]
          /\ store' = store
          /\ storeWrites' = storeWrites
          /\ analytics' = analytics]_vars

\* C9 witness: setPreferences(true) has accepted a destination that is still
\* reported as new
C9_Witness ==
  /\ lastCall = [op |-> "setPreferences", arg |-> BoolArg(TRUE)]
  /\ state.newDestinations # <<>>
  /\ \A d \in Ids(state.newDestinations) :
       d \in DOMAIN state.preferences /\ state.preferences[d] = "true"

\* C10: only saveConsent writes the Preference Store: every step that changes
\* the store or counts a write is a saveConsent, and as long as no saveConsent
\* has been called the store holds the record it held when the engine started.
C10_StoreWrittenOnlyBySave ==
  /\ [](((pc # "constructed") /\ storeWrites = 0) => store = loaded)
  /\ [][(store' # store \/ storeWrites' # storeWrites) => HandlerStep("saveConsent")]_vars

\* C10 witness: the fresh-user branch of initialise has adopted the adapter's
\* output, a resetPreferences followed, and nothing has been written
C10_Witness ==
  /\ ~WithoutAdapter
  /\ \E k \in DOMAIN props.initialPreferences : props.initialPreferences[k] = "true"
  /\ ~loaded.customPreferences.def
  /\ analytics.last.destinationPreferences # loaded.destinationPreferences
  /\ lastCall.op = "resetPreferences"
  /\ storeWrites = 0
  /\ store = NoRecord

\* C11: once isLoading is false no step makes it true again or changes
\* isConsentRequired, and the analytics activation of every saveConsent
\* carries the isConsentRequired value initialise resolved.
C11_ResolvedFieldsFrozen ==
  /\ [][~state.isLoading =>
          /\ ~state'.isLoading
          /\ state'.isConsentRequired = state.isConsentRequired]_vars
  /\ [](lastCall.op = "saveConsent" =>
          /\ analytics.last.isConsentRequired = predicate.value
          /\ state.isConsentRequired = predicate.value)

\* C11 witness: the predicate resolved false (the state of construction
\* holds true), and another handler call and a saveConsent have followed
C11_Witness ==
  /\ predicate.value = FALSE
  /\ ~state.isLoading
  /\ ~state.isConsentRequired
  /\ lastCall.op = "saveConsent"
  /\ nOps = 2
  /\ analytics.calls = 2

\* the keys of the persisted record and of the initial preferences are ids of
\* the catalog
ConfigKeysInCatalog ==
  /\ DOMAIN loaded.destinationPreferences.val \subseteq Ids(state.destinations)
  /\ DOMAIN props.initialPreferences \subseteq Ids(state.destinations)

\* C12 (as stated): without an adapter and with a persisted record and
\* initial preferences keyed by catalog ids, in every ready state, whatever
\* the arguments of the calls made so far, every key of preferences is the id
\* of a destination.
C12_NoFabricatedIdsAnyArgs ==
  (~state.isLoading /\ WithoutAdapter /\ ConfigKeysInCatalog) =>
    DOMAIN state.preferences \subseteq Ids(state.destinations)

\* C12 (amended): without an adapter and with a persisted record and initial
\* preferences keyed by catalog ids, every key of preferences is the id of a
\* destination after initialisation, and stays so through every handler call
\* whose argument is a boolean, omitted, or a mapping keyed by catalog ids.
C12_NoFabricatedIds ==
  /\ []((lastCall.op = "initialise" /\ WithoutAdapter /\ ConfigKeysInCatalog) =>
          DOMAIN state.preferences \subseteq Ids(state.destinations))
  /\ [][(/\ nOps' = nOps + 1
         /\ WithoutAdapter
         /\ ConfigKeysInCatalog
         /\ DOMAIN store.destinationPreferences.val \subseteq Ids(state.destinations)
         /\ DOMAIN state.preferences \subseteq Ids(state.destinations)
         /\ DOMAIN lastCall'.arg.val \subseteq Ids(state.destinations))
        => /\ DOMAIN state'.preferences \subseteq Ids(state'.destinations)
           /\ DOMAIN store'.destinationPreferences.val \subseteq Ids(state'.destinations)]_vars

\* C12 witness: on a catalog of a and b, a setPreferences(false) and a
\* saveConsent({b: true}) have left preferences keyed by a and b
C12_Witness ==
  /\ WithoutAdapter
  /\ ConfigKeysInCatalog
  /\ nOps = 2
  /\ lastCall = [op |-> "saveConsent", arg |-> ObjArg(One("b", "true"))]
  /\ state.preferences = [k \in {"a", "b"} |-> IF k = "a" THEN "false" ELSE "true"]
  /\ store.destinationPreferences.val = state.preferences

\* the preferences the stored record and the props determine: the custom
\* preferences with an adapter, the destination-level ones without, the
\* initial preferences when the record has none
StoredPreferences ==
  IF WithoutAdapter
    THEN IF store.destinationPreferences.def
           THEN store.destinationPreferences.val ELSE props.initialPreferences
    ELSE IF store.customPreferences.def
           THEN store.customPreferences.val ELSE props.initialPreferences

\* C13: the preferences resetPreferences publishes are determined by the
\* Preference Store and the props, whatever the preferences in memory were,
\* and a resetPreferences that directly follows a resetPreferences leaves the
\* state as it is.
C13_ResetDiscardsEdits ==
  /\ [](lastCall.op = "resetPreferences" => state.preferences = StoredPreferences)
  /\ [][(lastCall.op = "resetPreferences" /\ HandlerStep("resetPreferences"))
          => state' = state]_vars

\* C13 witness: the second handler call was a resetPreferences, nothing was
\* saved, and preferences are the loaded {a: true}
C13_Witness ==
  /\ WithoutAdapter
  /\ lastCall.op = "resetPreferences"
  /\ nOps = 2
  /\ storeWrites = 0
  /\ analytics.calls = 1
  /\ effects = <<"loadPreferences", "setState">>
  /\ state.preferences = One("a", "true")
  /\ Len(state.newDestinations) = 1

(* ------------------------------------------------------------------ *)
(* The engine with collaborators that may throw during a save         *)
(* ------------------------------------------------------------------ *)

NextFaults ==
  \/ Next
  \/ \E a \in SaveArgs, r \in ReloadArgs, f \in FailurePoints :
       handleSaveConsentThrows(a, r, f)

SpecFaults == Init /\ [][NextFaults]_vars

\* C14: a saveConsent call in which the adapter, the store write or the
\* analytics activation throws leaves the state and the persisted record as
\* they were before the call; a throwing adapter causes no store write and no
\* activation.
C14_SaveAllOrNothing ==
  [][(nOps' = nOps + 1 /\ lastCall'.op = "saveConsentThrew")
       => /\ state' = state
          /\ store' = store
          /\ (effects' = <<"mapCustomPreferences">> =>
                storeWrites' = storeWrites /\ analytics' = analytics)]_vars

(* ------------------------------------------------------------------ *)
(* The engine in a consuming context that may be torn down            *)
(* ------------------------------------------------------------------ *)

NextTeardown ==
  \/ Next
  \/ unmount

SpecTeardown == Init /\ [][NextTeardown]_vars

MaxDiffLen == 2

DiffIds == {"a", "b"}

DiffValues == {"true", "false", "null", "undefined"}

\* destination sequences of at most MaxDiffLen destinations
DiffDestinations ==
  UNION {[1..n -> {Dest(i) : i \in DiffIds}] : n \in 0..MaxDiffLen}

\* preference mappings over any subset of the ids, and the absent mapping
DiffPreferences ==
  {Undefined} \cup {Some(m) : m \in UNION {[S -> DiffValues] : S \in SUBSET DiffIds}}

InitDiff ==
  /\ props = [mapCustomPreferences |-> "none", onError |-> FALSE,
              initialPreferences |-> EmptyPrefs]
  /\ store = NoRecord
  /\ state = [isLoading |-> TRUE, destinations |-> <<>>, newDestinations |-> <<>>,
              preferences |-> EmptyPrefs, isConsentRequired |-> TRUE,
              destinationPreferences |-> Undefined]
  /\ pc = "constructed"
  /\ loaded = NoRecord
  /\ predicate = [status |-> "idle", value |-> FALSE]
  /\ fetch = [status |-> "idle", value |-> <<>>]
  /\ join = [status |-> "idle", reason |-> "none"]
  /\ analytics = [calls |-> 0, last |-> NoActivation]
  /\ storeWrites = 0
  /\ onErrorCalls = [calls |-> 0, reason |-> "none"]
  /\ childrenCalled = FALSE
  /\ lastCall = [op |-> "none", arg |-> NoArg]
  /\ nOps = 0
  /\ mounted = TRUE
  /\ effects = <<>>
  /\ published = Undefined
  /\ diffIn \in [destinations : DiffDestinations, destinationPreferences : DiffPreferences]
  /\ diffOut = NoDiffOut

\* one call destinationsWithoutConsent(destinations, destinationPreferences)
applyDiff ==
  /\ ~diffOut.done
  /\ diffOut' = [done |-> TRUE,
                 result |-> destinationsWithoutConsent(diffIn.destinations,
                                                       diffIn.destinationPreferences)]
  /\ UNCHANGED <<props, store, state, pc, loaded, predicate, fetch, join, analytics,
                 storeWrites, onErrorCalls, childrenCalled, lastCall, nOps,
                 mounted, effects, published, diffIn>>

NextDiff == applyDiff

SpecDiff == InitDiff /\ [][NextDiff]_vars

\* C16 (as stated): destinationsWithoutConsent(D, P) is the subsequence of D
\* of the destinations whose id is not a key of P, and D itself when P is
\* undefined.
C16_DiffByKey ==
  diffOut.done =>
    diffOut.result =
      IF diffIn.destinationPreferences.def
        THEN SelectSeq(diffIn.destinations,
                       LAMBDA d : d.id \notin DOMAIN diffIn.destinationPreferences.val)
        ELSE diffIn.destinations

\* C16 (amended): destinationsWithoutConsent(D, P) is the subsequence of D of
\* the destinations whose id is not a key of P or is a key P maps to
\* undefined (keys mapped to true, false or null are excluded), and D itself
\* when P is undefined.
C16_DiffByValue ==
  diffOut.done =>
    diffOut.result =
      IF diffIn.destinationPreferences.def
        THEN SelectSeq(diffIn.destinations,
                       LAMBDA d : \/ d.id \notin DOMAIN diffIn.destinationPreferences.val
                                  \/ diffIn.destinationPreferences.val[d.id] = "undefined")
        ELSE diffIn.destinations

\* C16 witness: for D = [b, a] and P = {a: undefined, b: null} the function
\* returned [a]
C16_Witness ==
  /\ diffOut.done
  /\ diffIn.destinations = <<Dest("b"), Dest("a")>>
  /\ diffIn.destinationPreferences =
       Some([k \in {"a", "b"} |-> IF k = "a" THEN "undefined" ELSE "null"])
  /\ diffOut.result = <<Dest("a")>>

\* the condition of the fresh-user branch: an initial preference is true and
\* the persisted custom preferences are absent or all null / undefined
FreshUser ==
  /\ \E k \in DOMAIN props.initialPreferences : props.initialPreferences[k] = "true"
  /\ \/ ~loaded.customPreferences.def
     \/ \A k \in DOMAIN loaded.customPreferences.val :
          loaded.customPreferences.val[k] \in {"null", "undefined"}

\* the destination-level mapping the adapter derives from the published preferences
AdapterMapping ==
  mapCustomPreferences(props.mapCustomPreferences, state.destinations,
                       state.preferences).destinationPreferences

\* the destinations with no defined value in the mapping m
Undecided(destinations, m) ==
  SelectSeq(destinations, LAMBDA d : d.id \notin DOMAIN m \/ m[d.id] = "undefined")

\* the adapter was called once by initialise exactly in the fresh-user case,
\* and the activation of initialise received the adapter's mapping then, the
\* loaded destination-level preferences otherwise
AdapterCalledIffFresh ==
  /\ effects = (IF FreshUser THEN <<"mapCustomPreferences">> ELSE <<>>)
                 \o <<"conditionallyLoadAnalytics", "setState">>
  /\ analytics.calls = 1
  /\ analytics.last.destinationPreferences =
       IF FreshUser THEN AdapterMapping ELSE Some(loaded.destinationPreferences.val)

\* C17 (as stated): with an adapter, initialise calls the adapter once exactly
\* in the fresh-user case; the activation receives the adapter's mapping and
\* the published newDestinations is the diff against that mapping when it was
\* called, and the activation receives the loaded preferences when it was not.
C17_FreshUserConsistentDiff ==
  (lastCall.op = "initialise" /\ ~WithoutAdapter) =>
    /\ AdapterCalledIffFresh
    /\ FreshUser => state.newDestinations = Undecided(state.destinations, AdapterMapping.val)

\* C17 (amended): with an adapter, initialise calls the adapter once exactly
\* in the fresh-user case; the activation receives the adapter's mapping when
\* it was called and the loaded preferences when it was not; the published
\* newDestinations is in both cases the diff against the loaded
\* destination-level preferences.
C17_FreshUserLoadedDiff ==
  (lastCall.op = "initialise" /\ ~WithoutAdapter) =>
    /\ AdapterCalledIffFresh
    /\ state.newDestinations =
         Undecided(state.destinations, loaded.destinationPreferences.val)

\* C17 witness: a fresh user (no record, initial preferences {a: true}): the
\* adapter was called, the activation received its mapping for both
\* destinations, and both destinations are still reported as new
C17_Witness ==
  /\ lastCall.op = "initialise"
  /\ ~WithoutAdapter
  /\ FreshUser
  /\ loaded = NoRecord
  /\ effects[1] = "mapCustomPreferences"
  /\ DOMAIN analytics.last.destinationPreferences.val = {"a", "b"}
  /\ Len(state.newDestinations) = 2

(* ------------------------------------------------------------------ *)
(* Progress of the initialisation                                     *)
(* ------------------------------------------------------------------ *)

\* React calls componentDidMount of a mounted component; the two lookups
\* resolve unless they reject first; the event loop resumes initialise once
\* the join is fulfilled
Fairness ==
  /\ WF_vars(componentDidMount)
  /\ WF_vars(\E b \in BOOLEAN : predicateResolve(b))
  /\ WF_vars(\E c \in Catalogs : fetchResolve(c))
  /\ WF_vars(initialiseContinue)

SpecLive == Init /\ [][Next]_vars /\ Fairness

\* the step in which initialise runs to its end
InitialiseStep == pc # "ready" /\ pc' = "ready"

\* C18: once the predicate and the catalog fetch have both resolved,
\* isLoading eventually becomes false; isLoading changes only in the one step
\* in which initialise runs to its end, that step happens at most once, and
\* in it the single activation of initialisation is issued before the state
\* is published.
C18_InitialisationTerminates ==
  /\ (predicate.status = "resolved" /\ fetch.status = "resolved") ~> ~state.isLoading
  /\ [][state'.isLoading # state.isLoading => InitialiseStep]_vars
  /\ [][pc = "ready" => pc' = "ready"]_vars
  /\ [][InitialiseStep =>
          /\ state.isLoading /\ ~state'.isLoading
          /\ state.destinations = <<>> /\ state'.destinations = fetch.value
          /\ analytics.calls = 0 /\ analytics'.calls = 1
          /\ Len(effects') >= 2
          /\ SubSeq(effects', Len(effects') - 1, Len(effects'))
               = <<"conditionallyLoadAnalytics", "setState">>]_vars

\* C18 witness: both lookups resolved, the load returned a record, and the
\* engine is ready with the two-destination catalog and one activation
C18_Witness ==
  /\ pc = "ready"
  /\ nOps = 0
  /\ ~state.isLoading
  /\ loaded # NoRecord
  /\ predicate = [status |-> "resolved", value |-> TRUE]
  /\ fetch.status = "resolved"
  /\ state.destinations = <<Dest("a"), Dest("b")>>
  /\ state.isConsentRequired
  /\ analytics.calls = 1

\* the number of calls of `what` among the calls of the last operation
Count(what) == Cardinality({i \in DOMAIN effects' : effects'[i] = what})

\* C19: a saveConsent call that returns writes the Preference Store once and
\* then activates analytics once, both before it publishes the state; the
\* stored record is replaced by the resolved record (the published
\* destinationPreferences, and the published preferences as custom
\* preferences when an adapter is configured, none otherwise), and the
\* activation receives the destinationPreferences that were written.
C19_SaveWritesThenActivates ==
  [][HandlerStep("saveConsent") =>
       /\ storeWrites' = storeWrites + 1
       /\ analytics'.calls = analytics.calls + 1
       /\ Count("savePreferences") = 1
       /\ Count("conditionallyLoadAnalytics") = 1
       /\ SubSeq(effects', Len(effects') - 2, Len(effects'))
            = <<"savePreferences", "conditionallyLoadAnalytics", "setState">>
       /\ store' = [destinationPreferences |-> state'.destinationPreferences,
                    customPreferences |->
                      IF WithoutAdapter THEN Undefined ELSE Some(state'.preferences)]
       /\ analytics'.last.destinationPreferences = store'.destinationPreferences
       /\ analytics'.last.destinations = state.destinations]_vars

\* C19 witness: the record loaded at the start had custom preferences; one
\* saveConsent without adapter wrote a record without them, and the
\* activation received the written destination-level preferences
C19_Witness ==
  /\ lastCall.op = "saveConsent"
  /\ WithoutAdapter
  /\ loaded.customPreferences.def
  /\ ~store.customPreferences.def
  /\ storeWrites = 1
  /\ analytics.calls = 2
  /\ analytics.last.destinationPreferences = store.destinationPreferences
  /\ store.destinationPreferences = state.destinationPreferences

\* C20: once a saveConsent has returned, in every state reached by further
\* setPreferences calls the preferences that resetPreferences resolves from
\* the stored record are the ones the last saveConsent published, and a
\* resetPreferences call exposes exactly them.
C20_SaveResetRoundTrip ==
  /\ [](published.def => resetResolve(props, loadPreferences(store)) = published.val)
  /\ [][(HandlerStep("resetPreferences") /\ published.def)
          => state'.preferences = published.val]_vars

\* C20 witness: with an adapter that returns no custom preferences, a
\* saveConsent and then a resetPreferences: the exposed preferences are the
\* published ones and differ from what the record loaded at the start resolves to
C20_Witness ==
  /\ lastCall.op = "resetPreferences"
  /\ props.mapCustomPreferences = "noCustom"
  /\ published.def
  /\ storeWrites = 1
  /\ state.preferences = published.val
  /\ state.preferences # resetResolve(props, loaded)

\* the case of C20 with edits in between: after a saveConsent and a
\* setPreferences the exposed preferences differ from the published ones,
\* which are what a reset would resolve
C20_EditedAfterSave ==
  /\ lastCall.op = "setPreferences"
  /\ published.def
  /\ state.preferences # published.val
  /\ resetResolve(props, loadPreferences(store)) = published.val

====
